---- MODULE Spec2Model ----
(***************************************************************************)
(* Model of the BLACKGIFT AI chat server (src/server.js): the token        *)
(* estimator, the history trimmer, the session and Firestore history       *)
(* stores, and the /api/chat, /api/reset, /api/history and /api/usage      *)
(* handlers, with one process per in-flight HTTP request that yields at    *)
(* every await.                                                            *)
(*                                                                         *)
(* Texts are short strings; gpt-3-encoder's encode() is modelled by the    *)
(* table EncodeLength.  The ts field of a message (Date.now()) is not      *)
(* modelled; in its place every message carries `by`, the identity of the  *)
(* request that wrote it, which the stores carry along exactly as ts.      *)
(***************************************************************************)
EXTENDS Integers, Sequences, FiniteSets, TLC

(* ------------------------------ bounds -------------------------------- *)

\* longest message list handed to the trimmer in SpecTrim
MaxLen == 3
\* largest token budget handed to the trimmer in SpecTrim
MaxBudget == 26
\* number of HTTP requests that are started in one behaviour of Spec
MaxRequests == 2
\* requests of the one-at-a-time client of SpecSeq
MaxSeqRequests == 3
\* largest initial usage counter in SpecUsage
MaxInitUsage == 2
\* largest token budget of SpecEquiv
MaxEquivBudget == 40
\* chat turns and resets applied in SpecEquiv
MaxTurns == 3

(* ----------------------------- constants ------------------------------ *)

SYSTEM_PROMPT == "SYS"
FallbackReply == "Handina"
HISTORY_MAX_TOKENS == 34

Roles == {"system", "user", "assistant"}

\* req.body.message of POST /api/chat ("" also stands for a missing message)
RawMessages == {"", " ", " a "}
\* texts the completion service can return ("" stands for a missing content)
CompletionContents == {"", "r"}

(* -------------------------- token estimation -------------------------- *)

\* String.prototype.trim on the modelled texts
Trim(text) ==
  CASE text = " " -> ""
    [] text = " a " -> "a"
    [] OTHER -> text

\* encode(text).length of gpt-3-encoder on the modelled texts
EncodeLength(text) ==
  CASE text = "a" -> 1
    [] text = "r" -> 1
    [] text = "Handina" -> 4
    [] text = "SYS" -> 6
    [] OTHER -> 0

countTokensForContent(text) ==
  IF text = "" THEN 0 ELSE EncodeLength(text)

RECURSIVE countTokensLoop(_, _)
countTokensLoop(messages, i) ==
  IF i > Len(messages) THEN 0
  ELSE countTokensForContent(messages[i].content) + 4 + countTokensLoop(messages, i + 1)

countTokensForMessagesArray(messages) ==
  countTokensLoop(messages, 1) + 2

(* ------------------------------ messages ------------------------------ *)

Msg(role, content, by) == [role |-> role, content |-> content, by |-> by]

\* { role: 'system', content: SYSTEM_PROMPT }
SystemMessage == Msg("system", SYSTEM_PROMPT, "sys")

Seed == <<SystemMessage>>

(* ------------------------------ trimming ------------------------------ *)

\* faulty variant: the loop shifts the whole list, so the system message is evicted first
RECURSIVE trimLoopShiftAll(_, _, _, _, _)
trimLoopShiftAll(system, rest, total, maxTokens, iters) ==
  IF Len(rest) > 0 /\ total > maxTokens
  THEN trimLoopShiftAll(rest[1], Tail(rest), countTokensForMessagesArray(rest),
                        maxTokens, iters + 1)
  ELSE [messages |-> <<system>> \o rest, totalTokens |-> total, iters |-> iters]

\* faulty variant: the loop stops while one non-system message is left (rest.length > 1)
RECURSIVE trimLoopKeepsLast(_, _, _, _, _)
trimLoopKeepsLast(system, rest, total, maxTokens, iters) ==
  IF Len(rest) > 1 /\ total > maxTokens
  THEN trimLoopKeepsLast(system, Tail(rest),
                         countTokensForMessagesArray(<<system>> \o Tail(rest)),
                         maxTokens, iters + 1)
  ELSE [messages |-> <<system>> \o rest, totalTokens |-> total, iters |-> iters]

\* faulty variant: rest.pop() instead of rest.shift(), the newest message is evicted first
RECURSIVE trimLoopPop(_, _, _, _, _)
trimLoopPop(system, rest, total, maxTokens, iters) ==
  IF Len(rest) > 0 /\ total > maxTokens
  THEN LET front == SubSeq(rest, 1, Len(rest) - 1)
       IN trimLoopPop(system, front, countTokensForMessagesArray(<<system>> \o front),
                      maxTokens, iters + 1)
  ELSE [messages |-> <<system>> \o rest, totalTokens |-> total, iters |-> iters]

\* faulty variant: the total is recounted before rest.shift(), one eviction too many
RECURSIVE trimLoopStaleTotal(_, _, _, _, _)
trimLoopStaleTotal(system, rest, total, maxTokens, iters) ==
  IF Len(rest) > 0 /\ total > maxTokens
  THEN trimLoopStaleTotal(system, Tail(rest),
                          countTokensForMessagesArray(<<system>> \o rest),
                          maxTokens, iters + 1)
  ELSE [messages |-> <<system>> \o rest, totalTokens |-> total, iters |-> iters]

\* the while loop of trimMessagesByTokenBudget: rest.shift() and recount
RECURSIVE trimLoop(_, _, _, _, _)
trimLoop(system, rest, total, maxTokens, iters) ==
  IF Len(rest) > 0 /\ total > maxTokens
  THEN trimLoop(system, Tail(rest),
                countTokensForMessagesArray(<<system>> \o Tail(rest)),
                maxTokens, iters + 1)
  ELSE [messages |-> <<system>> \o rest, totalTokens |-> total, iters |-> iters]

\* faulty variant: the budget is treated as exclusive (total < maxTokens, total >= maxTokens)
RECURSIVE trimLoopExclusive(_, _, _, _, _)
trimLoopExclusive(system, rest, total, maxTokens, iters) ==
  IF Len(rest) > 0 /\ total >= maxTokens
  THEN trimLoopExclusive(system, Tail(rest),
                         countTokensForMessagesArray(<<system>> \o Tail(rest)),
                         maxTokens, iters + 1)
  ELSE [messages |-> <<system>> \o rest, totalTokens |-> total, iters |-> iters]

trimExclusiveBudget(messages, maxTokens) ==
  IF Len(messages) = 0
  THEN [messages |-> Seed, totalTokens |-> countTokensForContent(SYSTEM_PROMPT), iters |-> 0]
  ELSE LET total == countTokensForMessagesArray(messages)
       IN IF total < maxTokens
          THEN [messages |-> messages, totalTokens |-> total, iters |-> 0]
          ELSE trimLoopExclusive(messages[1], Tail(messages), total, maxTokens, 0)

trimMessagesByTokenBudget(messages, maxTokens) ==
  IF Len(messages) = 0
  THEN [messages |-> Seed, totalTokens |-> countTokensForContent(SYSTEM_PROMPT), iters |-> 0]
  ELSE LET total == countTokensForMessagesArray(messages)
       IN IF total <= maxTokens
          THEN [messages |-> messages, totalTokens |-> total, iters |-> 0]
          ELSE trimLoop(messages[1], Tail(messages), total, maxTokens, 0)

(* ------------------------------- state -------------------------------- *)

\* the uids Firebase issues ID tokens for
Uids == {"u1"}
Sessions == {"s1", "s2"}
\* the request slots: at most this many requests are in flight at once
Reqs == {"r1", "r2"}
\* the slots before slot r: an arriving request takes the first free slot
SlotsBefore(r) == IF r = "r1" THEN {} ELSE {"r1"}
\* Authorization header: none, or a bearer ID token issued for a uid
Tokens == {"none"} \cup Uids
\* Authenticated{uid} or Anonymous{sessionId}
Identities == Uids \cup Sessions

VARIABLES
  firestore,     \* TRUE iff the firestore handle is non-null (server.js:45)
  docs,          \* the user_histories collection: uid -> document
  sessionStore,  \* the Redis session store: session id -> stored session
  reqs,          \* the in-flight requests: slot -> request state
  started,       \* number of requests started so far
  usage0,        \* history variable: token_usage.total of each document at Init
  usageDeltas,   \* history variable: sum of the deltas committed by addUserTokenUsage
  resetDone,     \* history variable: identity -> its last completed change was a reset
  tMessages,     \* SpecTrim: the messages argument
  tMaxTokens,    \* SpecTrim: the maxTokens argument
  tResult,       \* SpecTrim: the value returned
  tDone,         \* SpecTrim: TRUE once the call has returned
  eBudget,       \* SpecEquiv: the token budget both variants trim to
  eSession,      \* SpecEquiv: the history held by the session variant
  eDurable,      \* SpecEquiv: the history held by the durable variant
  eSent,         \* SpecEquiv: the lists the two variants sent for the last turn
  eTurns         \* SpecEquiv: number of chat turns and resets applied so far

vars == <<firestore, docs, sessionStore, reqs, started, usage0, usageDeltas, resetDone,
          tMessages, tMaxTokens, tResult, tDone,
          eBudget, eSession, eDurable, eSent, eTurns>>

sysVars == <<firestore, docs, sessionStore, reqs, started, usage0, usageDeltas, resetDone>>
trimVars == <<tMessages, tMaxTokens, tResult, tDone>>
equivVars == <<eBudget, eSession, eDurable, eSent, eTurns>>

\* a document of user_histories that does not exist
NoDoc == [exists |-> FALSE, hasHistory |-> FALSE, history |-> <<>>,
          total_tokens |-> 0, usage |-> 0]

\* a session without a history property (also: a session not yet in the store)
NoHistory == [has |-> FALSE, history |-> <<>>, history_total_tokens |-> 0]

NoResult == [messages |-> <<>>, totalTokens |-> 0, iters |-> 0]

NoSent == [session |-> <<>>, durable |-> <<>>]

\* the variables of SpecEquiv at rest
EquivUnused ==
  /\ eBudget = 0 /\ eSession = <<>> /\ eDurable = <<>> /\ eSent = NoSent /\ eTurns = 0

IdleReq ==
  [pc |-> "idle", kind |-> "none", user |-> "anon", sid |-> "s1", userMessage |-> "",
   session |-> NoHistory, dirty |-> FALSE,
   messages |-> <<>>, persistsTo |-> "none", history |-> <<>>, newTotal |-> 0,
   assistantText |-> "", promptTokens |-> 0, completionTokens |-> 0,
   totalRequestTokens |-> 0, txCurrent |-> 0, txStale |-> FALSE, txAttempts |-> 0,
   status |-> 0, body |-> <<>>, usageBody |-> 0,
   completion |-> "none", content |-> "", saved |-> FALSE, usageAdded |-> FALSE]

\* the identity a request acts as: Authenticated{uid}, or Anonymous scoped to its session
Identity(q) == IF q.user # "anon" THEN q.user ELSE q.sid

\* token_usage.total as GET /api/usage reports it
UsageOf(u) == IF docs[u].exists THEN docs[u].usage ELSE 0

(* --------------------------- session helpers -------------------------- *)

\* faulty variant: a missing session history is seeded with an empty array
ensureAnonHistoryEmpty(q) ==
  IF ~q.session.has
  THEN [q EXCEPT !.session = [has |-> TRUE, history |-> <<>>,
                              history_total_tokens |-> 0],
                 !.dirty = TRUE]
  ELSE q

ensureAnonHistory(q) ==
  IF ~q.session.has
  THEN [q EXCEPT !.session = [has |-> TRUE, history |-> Seed,
                              history_total_tokens |-> countTokensForContent(SYSTEM_PROMPT)],
                 !.dirty = TRUE]
  ELSE q

\* faulty variant: the pushed-to session history is stored back untrimmed
sessionPushNoTrim(q, m) ==
  LET h == Append(q.session.history, m)
  IN [q EXCEPT !.session = [has |-> TRUE, history |-> h,
                            history_total_tokens |-> countTokensForMessagesArray(h)],
               !.dirty = TRUE]

\* req.session.history.push(m); trim; store the result back on req.session
sessionPushAndTrim(q, m) ==
  LET t == trimMessagesByTokenBudget(Append(q.session.history, m), HISTORY_MAX_TOKENS)
  IN [q EXCEPT !.session = [has |-> TRUE, history |-> t.messages,
                            history_total_tokens |-> t.totalTokens],
               !.dirty = TRUE]

(* -------------------------- Firestore helpers ------------------------- *)

\* the condition `req.user && req.user.uid && firestore`
UsesFirestore(q) == q.user # "anon" /\ firestore

\* every write to a document invalidates the transactions that have read it
Invalidate(rs, u, writer) ==
  [x \in Reqs |->
     IF x # writer /\ rs[x].user = u /\ rs[x].pc = "tx_commit"
     THEN [rs[x] EXCEPT !.txStale = TRUE] ELSE rs[x]]

\* docRef.set({history, total_tokens, token_usage: {total: 0}, updated_at}) without merge
SeedDoc == [exists |-> TRUE, hasHistory |-> TRUE, history |-> Seed,
            total_tokens |-> countTokensForContent(SYSTEM_PROMPT), usage |-> 0]

\* faulty variant: the history is written without merge, like the lazy seed
MergeHistoryNoMerge(doc, history, total_tokens) ==
  [exists |-> TRUE, hasHistory |-> TRUE, history |-> history,
   total_tokens |-> total_tokens, usage |-> 0]

\* docRef.set({history, total_tokens, updated_at}, {merge: true})
MergeHistory(doc, history, total_tokens) ==
  [doc EXCEPT !.exists = TRUE, !.hasHistory = TRUE, !.history = history,
              !.total_tokens = total_tokens]

\* tx.set(docRef, {token_usage: {total}}, {merge: true})
MergeUsage(doc, total) ==
  [doc EXCEPT !.exists = TRUE, !.usage = total]

(* ------------------------- request life cycle ------------------------- *)

\* res.status(code).json(...): the handler is finished, the response is pending
Reply(q, code) == [q EXCEPT !.status = code, !.pc = "respond"]

\* catch (err) { res.status(500).json(...) }: the constants of the try block are out
\* of scope; req (its user and session) and what the request has done so far remain
Catch(q) ==
  [IdleReq EXCEPT !.pc = "respond", !.status = 500, !.kind = q.kind, !.user = q.user,
                  !.sid = q.sid, !.session = q.session, !.dirty = q.dirty,
                  !.completion = q.completion, !.saved = q.saved,
                  !.usageAdded = q.usageAdded]

\* a request arrives with its session cookie; express-session loads req.session
StartWithin(r, limit) ==
  /\ reqs[r].pc = "idle"
  /\ \A r2 \in SlotsBefore(r) : reqs[r2].pc # "idle"
  /\ started < limit
  /\ \E sid \in Sessions :
       reqs' = [reqs EXCEPT ![r] =
                  [IdleReq EXCEPT !.pc = "auth", !.sid = sid,
                                  !.session = sessionStore[sid]]]
  /\ started' = started + 1
  /\ UNCHANGED <<firestore, docs, sessionStore, usage0, usageDeltas, trimVars, equivVars, resetDone>>

Start(r) == StartWithin(r, MaxRequests)

\* a client that sends its next request only after the previous response
StartSeq(r) ==
  /\ \A r2 \in Reqs : reqs[r2].pc = "idle"
  /\ StartWithin(r, MaxSeqRequests)

\* maybeAuthenticate: req.user is set only when verifyIdToken resolves
maybeAuthenticate(r) ==
  /\ reqs[r].pc = "auth"
  /\ \E token \in Tokens, verified \in BOOLEAN :
       reqs' = [reqs EXCEPT ![r] =
                  [reqs[r] EXCEPT !.pc = "route",
                                  !.user = IF token # "none" /\ verified
                                           THEN token ELSE "anon"]]
  /\ UNCHANGED <<firestore, docs, sessionStore, started, usage0, usageDeltas, trimVars, equivVars, resetDone>>

(* --------------------------- loadUserHistory -------------------------- *)

\* faulty variant: the reply is appended to the list built before the completion call, not to the re-loaded history
AfterLoadStale(q, loaded) ==
  CASE q.pc \in {"build_get", "build_set"} ->
         LET t == trimMessagesByTokenBudget(
                    Append(loaded, Msg("user", q.userMessage, Identity(q))),
                    HISTORY_MAX_TOKENS)
         IN [q EXCEPT !.messages = t.messages, !.persistsTo = "firestore",
                      !.pc = "completion"]
    [] q.pc \in {"post_get", "post_set"} ->
         LET t == trimMessagesByTokenBudget(
                    Append(q.messages, Msg("assistant", q.assistantText, Identity(q))),
                    HISTORY_MAX_TOKENS)
         IN [q EXCEPT !.history = t.messages, !.newTotal = t.totalTokens,
                      !.pc = "save"]
    [] OTHER ->
         Reply([q EXCEPT !.body = loaded], 200)

\* faulty variant: only the reply is pushed on the re-loaded history
AfterLoadDropsUser(q, loaded) ==
  CASE q.pc \in {"build_get", "build_set"} ->
         LET t == trimMessagesByTokenBudget(
                    Append(loaded, Msg("user", q.userMessage, Identity(q))),
                    HISTORY_MAX_TOKENS)
         IN [q EXCEPT !.messages = t.messages, !.persistsTo = "firestore",
                      !.pc = "completion"]
    [] q.pc \in {"post_get", "post_set"} ->
         LET t == trimMessagesByTokenBudget(
                    Append(loaded, Msg("assistant", q.assistantText, Identity(q))),
                    HISTORY_MAX_TOKENS)
         IN [q EXCEPT !.history = t.messages, !.newTotal = t.totalTokens,
                      !.pc = "save"]
    [] OTHER ->
         Reply([q EXCEPT !.body = loaded], 200)

\* what the caller of loadUserHistory does with the loaded history, up to its next await
AfterLoad(q, loaded) ==
  CASE q.pc \in {"build_get", "build_set"} ->
         \* buildConversation, lines 184-187
         LET t == trimMessagesByTokenBudget(
                    Append(loaded, Msg("user", q.userMessage, Identity(q))),
                    HISTORY_MAX_TOKENS)
         IN [q EXCEPT !.messages = t.messages, !.persistsTo = "firestore",
                      !.pc = "completion"]
    [] q.pc \in {"post_get", "post_set"} ->
         \* app.post('/api/chat'), lines 222-226
         LET t == trimMessagesByTokenBudget(
                    loaded \o <<Msg("user", q.userMessage, Identity(q)),
                                Msg("assistant", q.assistantText, Identity(q))>>,
                    HISTORY_MAX_TOKENS)
         IN [q EXCEPT !.history = t.messages, !.newTotal = t.totalTokens,
                      !.pc = "save"]
    [] OTHER ->
         \* app.get('/api/history'), line 265
         Reply([q EXCEPT !.body = loaded], 200)

\* const snap = await docRef.get()
LoadGet(r) ==
  /\ reqs[r].pc \in {"build_get", "post_get", "hist_get"}
  /\ LET q == reqs[r]
         doc == docs[q.user]
     IN reqs' = [reqs EXCEPT ![r] =
                   IF ~doc.exists
                   THEN [q EXCEPT !.pc = CASE q.pc = "build_get" -> "build_set"
                                           [] q.pc = "post_get" -> "post_set"
                                           [] OTHER -> "hist_set"]
                   ELSE AfterLoad(q, IF doc.hasHistory THEN doc.history ELSE Seed)]
  /\ UNCHANGED <<firestore, docs, sessionStore, started, usage0, usageDeltas, trimVars, equivVars, resetDone>>

\* if (!snap.exists) await docRef.set({...}) -- a plain set, no merge
LoadSet(r) ==
  /\ reqs[r].pc \in {"build_set", "post_set", "hist_set"}
  /\ LET q == reqs[r]
     IN /\ docs' = [docs EXCEPT ![q.user] = SeedDoc]
        /\ reqs' = [Invalidate(reqs, q.user, r) EXCEPT ![r] =
                      AfterLoad(q, Seed)]
  /\ UNCHANGED <<firestore, sessionStore, started, usage0, usageDeltas, trimVars, equivVars, resetDone>>

(* --------------------------- POST /api/chat --------------------------- *)

\* faulty variant: the session history is seeded before the message is validated
ChatBeginLateValidation(r) ==
  /\ reqs[r].pc = "route"
  /\ \E message \in RawMessages :
     LET q == ensureAnonHistory([reqs[r] EXCEPT !.kind = "chat",
                                               !.userMessage = Trim(message)])
     IN
     /\ reqs' = [reqs EXCEPT ![r] =
          IF q.userMessage = "" THEN Reply(q, 400)
          ELSE IF UsesFirestore(q) THEN [q EXCEPT !.pc = "build_get"]
          ELSE LET q2 == sessionPushAndTrim(q, Msg("user", q.userMessage, Identity(q)))
               IN [q2 EXCEPT !.messages = q2.session.history,
                             !.persistsTo = "session", !.pc = "completion"]]
     /\ resetDone' = IF Trim(message) = "" THEN resetDone
                     ELSE [resetDone EXCEPT ![Identity(reqs[r])] = FALSE]
  /\ UNCHANGED <<firestore, docs, sessionStore, started, usage0, usageDeltas, trimVars, equivVars>>

\* lines 202-205 and buildConversation up to its first await
ChatBegin(r) ==
  /\ reqs[r].pc = "route"
  /\ \E message \in RawMessages :
     LET q == [reqs[r] EXCEPT !.kind = "chat", !.userMessage = Trim(message)]
     IN
     /\ reqs' = [reqs EXCEPT ![r] =
          IF q.userMessage = "" THEN Reply(q, 400)
          ELSE IF UsesFirestore(q) THEN [q EXCEPT !.pc = "build_get"]
          ELSE LET q2 == sessionPushAndTrim(ensureAnonHistory(q),
                                            Msg("user", q.userMessage, Identity(q)))
               IN [q2 EXCEPT !.messages = q2.session.history,
                             !.persistsTo = "session", !.pc = "completion"]]
     /\ resetDone' = IF Trim(message) = "" THEN resetDone
                     ELSE [resetDone EXCEPT ![Identity(reqs[r])] = FALSE]
  /\ UNCHANGED <<firestore, docs, sessionStore, started, usage0, usageDeltas, trimVars, equivVars>>

\* openai.chat.completions.create resolves; lines 215-236 up to the next await
Completion(r) ==
  /\ reqs[r].pc = "completion"
  /\ \E content \in CompletionContents :
       LET text == IF content = "" THEN FallbackReply ELSE content
           p == countTokensForMessagesArray(reqs[r].messages)
           c == countTokensForContent(text)
           q == [reqs[r] EXCEPT !.content = content,
                                !.assistantText = text, !.promptTokens = p,
                                !.completionTokens = c, !.totalRequestTokens = p + c,
                                !.completion = "ok"]
       IN reqs' = [reqs EXCEPT ![r] =
            IF q.persistsTo = "firestore" /\ q.user # "anon"
            THEN [q EXCEPT !.pc = "post_get"]
            ELSE Reply(sessionPushAndTrim(ensureAnonHistory(q),
                                          Msg("assistant", text, Identity(q))), 200)]
  /\ UNCHANGED <<firestore, docs, sessionStore, started, usage0, usageDeltas, trimVars, equivVars, resetDone>>

\* openai.chat.completions.create rejects; the catch block answers 500
CompletionFail(r) ==
  /\ reqs[r].pc = "completion"
  /\ reqs' = [reqs EXCEPT ![r] = Catch([@ EXCEPT !.completion = "failed"])]
  /\ UNCHANGED <<firestore, docs, sessionStore, started, usage0, usageDeltas, trimVars, equivVars, resetDone>>

\* await saveUserHistory(uid, history, total_tokens), from chat and from reset
saveUserHistory(r) ==
  /\ reqs[r].pc \in {"save", "reset_save"}
  /\ LET q == reqs[r]
     IN /\ docs' = [docs EXCEPT ![q.user] = MergeHistory(@, q.history, q.newTotal)]
        /\ reqs' = [Invalidate(reqs, q.user, r) EXCEPT ![r] =
                      IF q.pc = "save"
                      THEN [q EXCEPT !.saved = TRUE, !.pc = "tx_get"]
                      ELSE Reply([q EXCEPT !.saved = TRUE], 200)]
  /\ UNCHANGED <<firestore, sessionStore, started, usage0, usageDeltas, trimVars, equivVars, resetDone>>

(* -------------------------- addUserTokenUsage ------------------------- *)

\* const snap = await tx.get(docRef); current = data.token_usage?.total || 0
TxGet(r) ==
  /\ reqs[r].pc = "tx_get"
  /\ reqs' = [reqs EXCEPT ![r] =
                [reqs[r] EXCEPT !.txCurrent = UsageOf(reqs[r].user), !.txStale = FALSE,
                                !.txAttempts = reqs[r].txAttempts + 1,
                                !.pc = "tx_commit"]]
  /\ UNCHANGED <<firestore, docs, sessionStore, started, usage0, usageDeltas, trimVars, equivVars, resetDone>>

\* faulty variant: a plain read-modify-write, the write is applied whatever happened since the read
TxCommitNoConflictCheck(r) ==
  /\ reqs[r].pc = "tx_commit"
  /\ LET q == reqs[r]
     IN /\ docs' = [docs EXCEPT ![q.user] =
                      MergeUsage(@, q.txCurrent + q.totalRequestTokens)]
        /\ usageDeltas' = [usageDeltas EXCEPT ![q.user] = @ + q.totalRequestTokens]
        /\ reqs' = [Invalidate(reqs, q.user, r) EXCEPT ![r] =
                      Reply([q EXCEPT !.usageAdded = TRUE], 200)]
  /\ UNCHANGED <<firestore, sessionStore, started, usage0, trimVars, equivVars, resetDone>>

\* faulty variant: the counter is increased by the prompt tokens only
TxCommitPromptOnly(r) ==
  /\ reqs[r].pc = "tx_commit"
  /\ LET q == reqs[r]
     IN IF q.txStale
        THEN /\ reqs' = [reqs EXCEPT ![r] = [q EXCEPT !.pc = "tx_get"]]
             /\ UNCHANGED <<docs, usageDeltas>>
        ELSE /\ docs' = [docs EXCEPT ![q.user] =
                           MergeUsage(@, q.txCurrent + q.promptTokens)]
             /\ usageDeltas' = [usageDeltas EXCEPT ![q.user] = @ + q.promptTokens]
             /\ reqs' = [Invalidate(reqs, q.user, r) EXCEPT ![r] =
                           Reply([q EXCEPT !.usageAdded = TRUE], 200)]
  /\ UNCHANGED <<firestore, sessionStore, started, usage0, trimVars, equivVars, resetDone>>

\* the transaction commits tx.set(...) unless the document changed since tx.get;
\* on such a conflict runTransaction runs the update function again
TxCommit(r) ==
  /\ reqs[r].pc = "tx_commit"
  /\ LET q == reqs[r]
     IN IF q.txStale
        THEN /\ reqs' = [reqs EXCEPT ![r] = [q EXCEPT !.pc = "tx_get"]]
             /\ UNCHANGED <<docs, usageDeltas>>
        ELSE /\ docs' = [docs EXCEPT ![q.user] =
                           MergeUsage(@, q.txCurrent + q.totalRequestTokens)]
             /\ usageDeltas' = [usageDeltas EXCEPT ![q.user] = @ + q.totalRequestTokens]
             /\ reqs' = [Invalidate(reqs, q.user, r) EXCEPT ![r] =
                           Reply([q EXCEPT !.usageAdded = TRUE], 200)]
  /\ UNCHANGED <<firestore, sessionStore, started, usage0, trimVars, equivVars, resetDone>>

(* ------------------- reset, history and usage routes ------------------ *)

\* app.post('/api/reset') up to its first await
ResetBegin(r) ==
  /\ reqs[r].pc = "route"
  /\ LET q == [reqs[r] EXCEPT !.kind = "reset"]
     IN reqs' = [reqs EXCEPT ![r] =
          IF UsesFirestore(q)
          THEN [q EXCEPT !.history = Seed,
                         !.newTotal = countTokensForContent(SYSTEM_PROMPT),
                         !.pc = "reset_save"]
          ELSE Reply([q EXCEPT !.session =
                        [has |-> TRUE, history |-> Seed,
                         history_total_tokens |-> countTokensForContent(SYSTEM_PROMPT)],
                      !.dirty = TRUE], 200)]
  /\ UNCHANGED <<firestore, docs, sessionStore, started, usage0, usageDeltas, trimVars, equivVars, resetDone>>

\* app.get('/api/history') up to its first await
HistoryBegin(r) ==
  /\ reqs[r].pc = "route"
  /\ LET q == [reqs[r] EXCEPT !.kind = "history"]
     IN reqs' = [reqs EXCEPT ![r] =
          IF UsesFirestore(q)
          THEN [q EXCEPT !.pc = "hist_get"]
          ELSE LET q2 == ensureAnonHistory(q)
               IN Reply([q2 EXCEPT !.body = q2.session.history], 200)]
  /\ UNCHANGED <<firestore, docs, sessionStore, started, usage0, usageDeltas, trimVars, equivVars, resetDone>>

\* app.get('/api/usage') up to its first await
UsageBegin(r) ==
  /\ reqs[r].pc = "route"
  /\ LET q == [reqs[r] EXCEPT !.kind = "usage"]
     IN reqs' = [reqs EXCEPT ![r] =
                   IF ~UsesFirestore(q) THEN Reply(q, 401)
                   ELSE [q EXCEPT !.pc = "usage_get"]]
  /\ UNCHANGED <<firestore, docs, sessionStore, started, usage0, usageDeltas, trimVars, equivVars, resetDone>>

\* const snap = await docRef.get(); res.json({ usage: ... })
UsageGet(r) ==
  /\ reqs[r].pc = "usage_get"
  /\ reqs' = [reqs EXCEPT ![r] = Reply([reqs[r] EXCEPT !.usageBody = UsageOf(reqs[r].user)], 200)]
  /\ UNCHANGED <<firestore, docs, sessionStore, started, usage0, usageDeltas, trimVars, equivVars, resetDone>>

\* the pending Firestore call of the request rejects; the catch block answers 500
FirestoreAwaits == {"build_get", "build_set", "post_get", "post_set", "hist_get",
                    "hist_set", "save", "reset_save", "tx_get", "tx_commit", "usage_get"}

StoreFail(r) ==
  /\ reqs[r].pc \in FirestoreAwaits
  /\ reqs' = [reqs EXCEPT ![r] = Catch(@)]
  /\ UNCHANGED <<firestore, docs, sessionStore, started, usage0, usageDeltas, trimVars, equivVars, resetDone>>

\* the response ends; express-session writes req.session back if it was modified
Respond(r) ==
  /\ reqs[r].pc = "respond"
  /\ sessionStore' = IF reqs[r].dirty
                     THEN [sessionStore EXCEPT ![reqs[r].sid] = reqs[r].session]
                     ELSE sessionStore
  /\ reqs' = [reqs EXCEPT ![r] = IdleReq]
  /\ resetDone' = IF reqs[r].kind = "reset" /\ reqs[r].status = 200
                  THEN [resetDone EXCEPT ![Identity(reqs[r])] = TRUE]
                  ELSE resetDone
  /\ UNCHANGED <<firestore, docs, started, usage0, usageDeltas, trimVars, equivVars>>

(* --------------------------- the server: Spec ------------------------- *)

\* The stores outlive the server process.  At start-up they are either empty or
\* hold what one earlier chat turn ("a" answered by "r") of user u1 and one of
\* the anonymous client of session s1 left behind.
PriorTurn(id) == <<SystemMessage, Msg("user", "a", id), Msg("assistant", "r", id)>>

PriorDoc ==
  [exists |-> TRUE, hasHistory |-> TRUE, history |-> PriorTurn("u1"),
   total_tokens |-> countTokensForMessagesArray(PriorTurn("u1")),
   usage |-> countTokensForMessagesArray(SubSeq(PriorTurn("u1"), 1, 2))
             + countTokensForContent("r")]

PriorSession ==
  [has |-> TRUE, history |-> PriorTurn("s1"),
   history_total_tokens |-> countTokensForMessagesArray(PriorTurn("s1"))]

Init ==
  /\ firestore \in BOOLEAN
  /\ \E populated \in BOOLEAN :
       /\ docs = [u \in Uids |-> IF populated /\ u = "u1" THEN PriorDoc ELSE NoDoc]
       /\ sessionStore = [s \in Sessions |->
                            IF populated /\ s = "s1" THEN PriorSession ELSE NoHistory]
  /\ reqs = [r \in Reqs |-> IdleReq]
  /\ started = 0
  /\ usage0 = [u \in Uids |-> docs[u].usage]
  /\ usageDeltas = [u \in Uids |-> 0]
  /\ resetDone = [i \in Identities |-> FALSE]
  /\ tMessages = <<>> /\ tMaxTokens = 0 /\ tResult = NoResult /\ tDone = FALSE
  /\ EquivUnused

Next ==
  \E r \in Reqs :
    \/ Start(r)
    \/ maybeAuthenticate(r)
    \/ ChatBegin(r)
    \/ LoadGet(r)
    \/ LoadSet(r)
    \/ Completion(r)
    \/ CompletionFail(r)
    \/ saveUserHistory(r)
    \/ TxGet(r)
    \/ TxCommit(r)
    \/ ResetBegin(r)
    \/ HistoryBegin(r)
    \/ UsageBegin(r)
    \/ UsageGet(r)
    \/ StoreFail(r)
    \/ Respond(r)

Spec == Init /\ [][Next]_vars

(* --------- the same server, one request at a time: SpecSeq ----------- *)

NextSeq ==
  \E r \in Reqs :
    \/ StartSeq(r)
    \/ maybeAuthenticate(r)
    \/ ChatBegin(r)
    \/ LoadGet(r)
    \/ LoadSet(r)
    \/ Completion(r)
    \/ CompletionFail(r)
    \/ saveUserHistory(r)
    \/ TxGet(r)
    \/ TxCommit(r)
    \/ ResetBegin(r)
    \/ HistoryBegin(r)
    \/ UsageBegin(r)
    \/ UsageGet(r)
    \/ StoreFail(r)
    \/ Respond(r)

SpecSeq == Init /\ [][NextSeq]_vars

(* ----------------- the trimmer as a function: SpecTrim ---------------- *)

TrimTexts == {"", "a", "SYS"}
TrimMessages == {Msg(role, content, "sys") : role \in Roles, content \in TrimTexts}

RECURSIVE SeqsUpTo(_, _)
SeqsUpTo(S, n) ==
  IF n = 0 THEN {<<>>}
  ELSE LET shorter == SeqsUpTo(S, n - 1)
       IN shorter \cup {Append(sq, x) : sq \in {y \in shorter : Len(y) = n - 1}, x \in S}

InitTrim ==
  /\ tMessages \in SeqsUpTo(TrimMessages, MaxLen)
  /\ tMaxTokens \in 0..MaxBudget
  /\ tResult = NoResult /\ tDone = FALSE
  /\ EquivUnused
  /\ firestore = TRUE
  /\ docs = [u \in Uids |-> NoDoc]
  /\ sessionStore = [s \in Sessions |-> NoHistory]
  /\ reqs = [r \in Reqs |-> IdleReq]
  /\ started = 0
  /\ usage0 = [u \in Uids |-> 0]
  /\ usageDeltas = [u \in Uids |-> 0]
  /\ resetDone = [i \in Identities |-> FALSE]

TrimCall ==
  /\ ~tDone
  /\ tResult' = trimMessagesByTokenBudget(tMessages, tMaxTokens)
  /\ tDone' = TRUE
  /\ UNCHANGED <<tMessages, tMaxTokens, sysVars, equivVars>>

NextTrim == TrimCall

SpecTrim == InitTrim /\ [][NextTrim]_vars

(* ------------- concurrent addUserTokenUsage calls: SpecUsage ---------- *)

UsageDeltas == 1..2

\* the calls all address u1, whose document is missing or holds some usage
InitUsage ==
  /\ firestore = TRUE
  /\ \E d0 \in {NoDoc} \cup {[SeedDoc EXCEPT !.usage = i] : i \in 0..MaxInitUsage} :
       docs = [u \in Uids |-> IF u = "u1" THEN d0 ELSE NoDoc]
  /\ usage0 = [u \in Uids |-> docs[u].usage]
  /\ sessionStore = [s \in Sessions |-> NoHistory]
  /\ reqs \in [Reqs -> {[IdleReq EXCEPT !.pc = "tx_get", !.kind = "chat",
                                         !.user = "u1", !.totalRequestTokens = d]
                        : d \in UsageDeltas}]
  /\ started = 0
  /\ usageDeltas = [u \in Uids |-> 0]
  /\ resetDone = [i \in Identities |-> FALSE]
  /\ tMessages = <<>> /\ tMaxTokens = 0 /\ tResult = NoResult /\ tDone = FALSE
  /\ EquivUnused

NextUsage == \E r \in Reqs : TxGet(r) \/ TxCommit(r)

SpecUsage == InitUsage /\ [][NextUsage]_vars

(* ------- the session and the durable variant side by side: SpecEquiv ------ *)

\* user messages as they arrive after trim(), of two sizes
EquivMessages == {"a", "SYS"}

\* faulty variant: the reply is pushed and the list stored without the second trim
sessionTurnNoSecondTrim(h, m, text, maxTokens) ==
  LET sent == trimMessagesByTokenBudget(Append(h, Msg("user", m, "s1")), maxTokens).messages
  IN [sent |-> sent, stored |-> Append(sent, Msg("assistant", text, "s1"))]

\* one successful turn on the session path: buildConversation lines 189-193 push the
\* user message, trim and store; lines 229-233 push the reply, trim and store
sessionTurn(h, m, text, maxTokens) ==
  LET sent == trimMessagesByTokenBudget(Append(h, Msg("user", m, "s1")), maxTokens).messages
  IN [sent |-> sent,
      stored |-> trimMessagesByTokenBudget(Append(sent, Msg("assistant", text, "s1")),
                                           maxTokens).messages]

\* one successful turn on the Firestore path: buildConversation lines 183-187 trim the
\* loaded history plus the user message; lines 221-226 re-load, push both, trim, save
durableTurn(h, m, text, maxTokens) ==
  [sent |-> trimMessagesByTokenBudget(Append(h, Msg("user", m, "u1")), maxTokens).messages,
   stored |-> trimMessagesByTokenBudget(
                h \o <<Msg("user", m, "u1"), Msg("assistant", text, "u1")>>,
                maxTokens).messages]

InitEquiv ==
  /\ eBudget \in 0..MaxEquivBudget
  /\ \E prior \in BOOLEAN :
       /\ eSession = IF prior THEN PriorTurn("s1") ELSE Seed
       /\ eDurable = IF prior THEN PriorTurn("u1") ELSE Seed
  /\ eSent = NoSent /\ eTurns = 0
  /\ tMessages = <<>> /\ tMaxTokens = 0 /\ tResult = NoResult /\ tDone = FALSE
  /\ firestore = TRUE
  /\ docs = [u \in Uids |-> NoDoc]
  /\ sessionStore = [s \in Sessions |-> NoHistory]
  /\ reqs = [r \in Reqs |-> IdleReq]
  /\ started = 0
  /\ usage0 = [u \in Uids |-> 0]
  /\ usageDeltas = [u \in Uids |-> 0]
  /\ resetDone = [i \in Identities |-> FALSE]

\* the same chat message and the same completion content are given to both variants
EquivChat ==
  /\ eTurns < MaxTurns
  /\ \E m \in EquivMessages, content \in CompletionContents :
       LET text == IF content = "" THEN FallbackReply ELSE content
           s == sessionTurn(eSession, m, text, eBudget)
           d == durableTurn(eDurable, m, text, eBudget)
       IN /\ eSent' = [session |-> s.sent, durable |-> d.sent]
          /\ eSession' = s.stored
          /\ eDurable' = d.stored
  /\ eTurns' = eTurns + 1
  /\ UNCHANGED <<eBudget, sysVars, trimVars>>

\* POST /api/reset on both variants, lines 246-253
EquivReset ==
  /\ eTurns < MaxTurns
  /\ eSession' = Seed /\ eDurable' = Seed
  /\ eSent' = NoSent
  /\ eTurns' = eTurns + 1
  /\ UNCHANGED <<eBudget, sysVars, trimVars>>

NextEquiv == EquivChat \/ EquivReset

SpecEquiv == InitEquiv /\ [][NextEquiv]_vars

(* ============================ the claims ============================== *)

RECURSIVE SumTokens(_)
SumTokens(S) ==
  IF S = {} THEN 0
  ELSE LET r == CHOOSE x \in S : TRUE
       IN reqs[r].totalRequestTokens + SumTokens(S \ {r})

AllCallsCompleted == \A r \in Reqs : reqs[r].pc = "respond"

\* C1: once every concurrent addUserTokenUsage(u1, d) call has completed, the stored
\* token_usage.total is its initial value plus the sum of all d (no lost increment).
C1_NoLostIncrement ==
  AllCallsCompleted => UsageOf("u1") = usage0["u1"] + SumTokens(Reqs)

\* C1 witness: all calls completed and one of them had to run its update function twice
C1_Witness ==
  /\ AllCallsCompleted
  /\ \E r \in Reqs : reqs[r].txAttempts >= 2
  /\ UsageOf("u1") = usage0["u1"] + SumTokens(Reqs)

TrimReturned == tDone /\ Len(tMessages) > 0

\* C6: when H[0] is a system message, trim(H, B).messages[0] is H[0].
C6_SystemMessageKept ==
  (TrimReturned /\ tMessages[1].role = "system")
    => (Len(tResult.messages) >= 1 /\ tResult.messages[1] = tMessages[1])

\* C6 witness: an over-budget history led by a system message, some message evicted
C6_Witness ==
  /\ TrimReturned /\ tMessages[1].role = "system"
  /\ Len(tResult.messages) < Len(tMessages)
  /\ tResult.messages[1] = tMessages[1]

\* C7 as stated: the output fits the budget whenever B >= estimate(H[0]), the Token
\* Estimator's estimate of the system message's content; otherwise it is [H[0]].
C7_Original ==
  TrimReturned =>
    IF tMaxTokens >= countTokensForContent(tMessages[1].content)
    THEN /\ countTokensForMessagesArray(tResult.messages) <= tMaxTokens
         /\ tResult.totalTokens = countTokensForMessagesArray(tResult.messages)
    ELSE /\ tResult.messages = <<tMessages[1]>>
         /\ tResult.totalTokens = countTokensForMessagesArray(<<tMessages[1]>>)

\* C7 amended: the output fits the budget whenever B >= estimateMessages([H[0]]), the
\* estimate of the system message with the per-message and conversation overhead;
\* otherwise the output is exactly [H[0]] with its true over-budget count.
C7_FitsBudget ==
  TrimReturned =>
    IF tMaxTokens >= countTokensForMessagesArray(<<tMessages[1]>>)
    THEN /\ countTokensForMessagesArray(tResult.messages) <= tMaxTokens
         /\ tResult.totalTokens = countTokensForMessagesArray(tResult.messages)
    ELSE /\ tResult.messages = <<tMessages[1]>>
         /\ tResult.totalTokens = countTokensForMessagesArray(<<tMessages[1]>>)

\* C7 witness: budget 10, the system message alone counts 12: [system] with count 12
C7_Witness ==
  /\ TrimReturned /\ tMaxTokens = 10 /\ Len(tMessages) > 1
  /\ tMessages[1] = SystemMessage
  /\ tResult.messages = <<SystemMessage>> /\ tResult.totalTokens = 12

\* C8: the retained non-system messages are a contiguous suffix of H[1..], in order:
\* every retained one is newer than every evicted one.
C8_RetainsNewest ==
  TrimReturned =>
    \E k \in 0..(Len(tMessages) - 1) :
      tResult.messages = <<tMessages[1]>> \o SubSeq(tMessages, k + 2, Len(tMessages))

\* C8 witness: some message evicted, some non-system message retained
C8_Witness ==
  /\ TrimReturned
  /\ Len(tResult.messages) > 1 /\ Len(tResult.messages) < Len(tMessages)
  /\ tResult.messages[Len(tResult.messages)] = tMessages[Len(tMessages)]
  /\ tMessages[2] # tMessages[Len(tMessages)]

\* C9: if estimateMessages(H) <= B then trim(H, B) returns H itself and
\* totalTokens = estimateMessages(H).
C9_UnchangedWithinBudget ==
  (TrimReturned /\ countTokensForMessagesArray(tMessages) <= tMaxTokens)
    => /\ tResult.messages = tMessages
       /\ tResult.totalTokens = countTokensForMessagesArray(tMessages)

\* C9 witness: a three-message history whose estimate is exactly the budget
C9_Witness ==
  /\ TrimReturned /\ Len(tMessages) = 3
  /\ countTokensForMessagesArray(tMessages) = tMaxTokens
  /\ tResult.messages = tMessages

\* no chat turn of user u is between its start and its response
NoTurnInFlight(u) ==
  \A r \in Reqs : ~(reqs[r].user = u /\ reqs[r].kind = "chat" /\ reqs[r].pc # "idle")

\* C2: under any interleaving of the requests of one user, the user's usage counter
\* never decreases, and once the user's chat turns have finished it equals its initial
\* value plus the deltas of every turn that reached its usage increment.
C2_UsageNeverLost ==
  /\ [][\A u \in Uids : UsageOf(u)' >= UsageOf(u)]_vars
  /\ [](\A u \in Uids : NoTurnInFlight(u) => UsageOf(u) = usage0[u] + usageDeltas[u])

\* C3: in every terminal state of an authenticated chat request, the history save and
\* the usage increment have both taken effect or neither has.
C3_SaveAndUsageTogether ==
  \A r \in Reqs :
    (reqs[r].pc = "respond" /\ reqs[r].kind = "chat" /\ UsesFirestore(reqs[r]))
      => (reqs[r].saved <=> reqs[r].usageAdded)

\* C4: a chat request that has not obtained a successful completion (it is building the
\* conversation, awaiting the completion, or answering after the completion failed)
\* changes no stored history and no usage counter, except that it may create a missing
\* user document with the seed.
C4_NoWriteBeforeCompletion ==
  [][\A r \in Reqs :
       (reqs[r].kind = "chat" /\ reqs[r].completion # "ok" /\ reqs'[r] # reqs[r])
         => /\ sessionStore' = sessionStore
            /\ \A u \in Uids :
                 docs'[u] = docs[u] \/ (~docs[u].exists /\ docs'[u] = SeedDoc)]_vars

\* the messages a request has read from the history store of its identity
Observed(q) ==
  {q.messages[i] : i \in 1..Len(q.messages)} \cup {q.body[i] : i \in 1..Len(q.body)}

\* C5: the history a request reads (in buildConversation or GET /api/history) holds,
\* besides the system message, only messages written by requests of its own identity,
\* whether or not sessions are shared and whether or not Firestore is configured.
C5_HistoryIsolation ==
  \A r \in Reqs :
    \A m \in Observed(reqs[r]) : m.role # "system" => m.by = Identity(reqs[r])

ValidHistory(h) ==
  /\ Len(h) >= 1
  /\ h[1].role = "system"
  /\ \A i \in 2..Len(h) : h[i].role # "system"

\* C10: every stored history (of a session, of a user document) is non-empty, has a
\* system message at index 0 and no other system message.
C10_StoredHistoryShape ==
  /\ \A s \in Sessions : sessionStore[s].has => ValidHistory(sessionStore[s].history)
  /\ \A u \in Uids : (docs[u].exists /\ docs[u].hasHistory) => ValidHistory(docs[u].history)

\* C10 witness: trimming has evicted the oldest turn from a stored durable history and
\* from a stored session history, and the system message is still in front
C10_Witness ==
  /\ \E u \in Uids :
       /\ docs[u].exists /\ docs[u].hasHistory /\ Len(docs[u].history) >= 2
       /\ docs[u].history[1] = SystemMessage /\ docs[u].history[2].role = "assistant"
  /\ \E s \in Sessions :
       /\ sessionStore[s].has /\ Len(sessionStore[s].history) >= 2
       /\ sessionStore[s].history[1] = SystemMessage
       /\ sessionStore[s].history[2].role = "assistant"

\* H with its k oldest non-system messages removed
KeptAfter(H, k) == <<H[1]>> \o SubSeq(H, k + 2, Len(H))

\* the least number of evictions that brings H within budget B, or all of them
LeastEvictions(H, B) ==
  LET fits == {k \in 0..(Len(H) - 1) : countTokensForMessagesArray(KeptAfter(H, k)) <= B}
  IN IF fits = {} THEN Len(H) - 1
     ELSE CHOOSE k \in fits : \A j \in fits : k <= j

\* C19: trim evicts whole messages oldest-first and only as many as needed: the number
\* of evictions (loop iterations) is the least k with estimateMessages([H[0]] ++ H[k+1..])
\* <= B, or len(H)-1 if there is none; never more than len(H)-1 iterations.
C19_EvictsOnlyAsNeeded ==
  TrimReturned =>
    /\ tResult.iters = LeastEvictions(tMessages, tMaxTokens)
    /\ tResult.iters <= Len(tMessages) - 1
    /\ tResult.messages = KeptAfter(tMessages, tResult.iters)

\* C19 witness: three messages over budget, one eviction suffices and one is made
C19_Witness ==
  /\ TrimReturned /\ Len(tMessages) = 3
  /\ countTokensForMessagesArray(tMessages) > tMaxTokens
  /\ countTokensForMessagesArray(KeptAfter(tMessages, 1)) <= tMaxTokens
  /\ tResult.iters = 1 /\ Len(tResult.messages) = 2

\* a history within the token budget, or reduced to the system message alone
BoundedHistory(h) ==
  \/ countTokensForMessagesArray(h) <= HISTORY_MAX_TOKENS
  \/ (Len(h) = 1 /\ h[1].role = "system")

\* C20: in every reachable state each stored history (session or durable) has
\* estimateMessages(history) <= HISTORY_MAX_TOKENS or is the system message alone.
C20_StoredHistoryBounded ==
  /\ \A s \in Sessions : sessionStore[s].has => BoundedHistory(sessionStore[s].history)
  /\ \A u \in Uids : (docs[u].exists /\ docs[u].hasHistory) => BoundedHistory(docs[u].history)

\* C20 witness: a stored session history is full (one more one-token message would
\* exceed the budget) after its oldest turn was evicted
C20_Witness ==
  \E s \in Sessions :
    /\ sessionStore[s].has /\ Len(sessionStore[s].history) >= 4
    /\ sessionStore[s].history[2].role = "assistant"
    /\ countTokensForMessagesArray(sessionStore[s].history) <= HISTORY_MAX_TOKENS
    /\ countTokensForMessagesArray(Append(sessionStore[s].history, Msg("user", "a", "anon")))
         > HISTORY_MAX_TOKENS

\* C13: an authenticated chat request with a non-empty message whose completion call
\* did not fail is answered with the reply (200), whether the durable store is not
\* configured or one of its load/save/addUsage calls fails: a store failure never
\* fails the request.
C13_DegradesToSession ==
  \A r \in Reqs :
    (/\ reqs[r].pc = "respond" /\ reqs[r].kind = "chat" /\ reqs[r].user \in Uids
     /\ reqs[r].status # 400 /\ reqs[r].completion # "failed")
      => reqs[r].status = 200

\* C15: a POST /api/chat whose message is missing, empty or whitespace-only is answered
\* 400 and has no side effect: the completion service is not invoked, req.session is
\* not touched (no lazy seeding), and neither the step that rejects it nor the end of
\* its response changes a stored session, a stored document or a usage counter.
C15_EmptyMessageRejected ==
  /\ [](\A r \in Reqs :
          (reqs[r].pc = "respond" /\ reqs[r].kind = "chat" /\ reqs[r].status = 400)
            => /\ reqs[r].completion = "none" /\ ~reqs[r].dirty
               /\ ~reqs[r].saved /\ ~reqs[r].usageAdded)
  /\ [][\A r \in Reqs :
          (reqs[r].pc = "route" /\ reqs'[r].kind = "chat" /\ reqs'[r].userMessage = "")
            => /\ reqs'[r].pc = "respond" /\ reqs'[r].status = 400
               /\ reqs'[r].session = reqs[r].session /\ ~reqs'[r].dirty
               /\ docs' = docs /\ sessionStore' = sessionStore]_vars
  /\ [][\A r \in Reqs :
          (/\ reqs[r].pc = "respond" /\ reqs[r].kind = "chat" /\ reqs[r].status = 400
           /\ reqs'[r].pc = "idle")
            => (docs' = docs /\ sessionStore' = sessionStore)]_vars

\* C15 witness: a chat request of a client without a stored session history was answered
\* 400 and the session is still without one
C15_Witness ==
  \E r \in Reqs :
    /\ reqs[r].pc = "respond" /\ reqs[r].kind = "chat" /\ reqs[r].status = 400
    /\ reqs[r].userMessage = "" /\ ~reqs[r].session.has
    /\ ~sessionStore[reqs[r].sid].has

\* C18: for every successful chat turn tokens.total = tokens.prompt + tokens.completion,
\* tokens.prompt is estimateMessages of the trimmed list sent to the completion service
\* and tokens.completion is estimate(reply); the step of an authenticated turn that
\* adds to the usage counter adds exactly tokens.total.
C18_UsageDeltaIsResponseTotal ==
  /\ [](\A r \in Reqs :
          (reqs[r].pc = "respond" /\ reqs[r].kind = "chat" /\ reqs[r].status = 200)
            => /\ reqs[r].totalRequestTokens
                    = reqs[r].promptTokens + reqs[r].completionTokens
               /\ reqs[r].promptTokens = countTokensForMessagesArray(reqs[r].messages)
               /\ reqs[r].completionTokens = countTokensForContent(reqs[r].assistantText))
  /\ [][\A r \in Reqs :
          (reqs[r].pc = "tx_commit" /\ reqs'[r].usageAdded)
            => UsageOf(reqs[r].user)'
                 = UsageOf(reqs[r].user) + reqs'[r].totalRequestTokens]_vars

\* C18 witness: an authenticated turn on a history that was trimmed for the prompt has
\* added its total to the usage counter
C18_Witness ==
  \E r \in Reqs :
    /\ reqs[r].pc = "respond" /\ reqs[r].kind = "chat" /\ reqs[r].status = 200
    /\ reqs[r].usageAdded /\ reqs[r].completionTokens > 0
    /\ reqs[r].messages[2].role = "assistant"
    /\ UsageOf(reqs[r].user) >= usage0[reqs[r].user] + reqs[r].totalRequestTokens

\* the history of user u as loadUserHistory returns it
DurableHistory(u) == IF docs[u].exists /\ docs[u].hasHistory THEN docs[u].history ELSE Seed

\* the user message and the reply of the turn of request q
Turn(q) == <<Msg("user", q.userMessage, Identity(q)),
             Msg("assistant", q.assistantText, Identity(q))>>

\* C16: on a successful authenticated turn the list handed to saveUserHistory is
\* trim(L ++ [user:m, assistant:r], HISTORY_MAX_TOKENS), L being the durable history
\* as re-loaded after the completion returned, and the save stores exactly that list.
C16_SavesReloadedHistory ==
  /\ [][\A r \in Reqs :
          (reqs[r].pc \in {"post_get", "post_set"} /\ reqs'[r].pc = "save")
            => reqs'[r].history =
                 trimMessagesByTokenBudget(DurableHistory(reqs[r].user)' \o Turn(reqs[r]),
                                           HISTORY_MAX_TOKENS).messages]_vars
  /\ [][\A r \in Reqs :
          (reqs[r].pc = "save" /\ reqs'[r].saved)
            => docs'[reqs[r].user].history = reqs[r].history]_vars

\* C16 witness: the list about to be saved holds, before this request's own turn, a
\* turn that was persisted after this request built its prompt
C16_Witness ==
  \E r \in Reqs :
    /\ reqs[r].pc = "save" /\ Len(reqs[r].messages) = 2 /\ Len(reqs[r].history) = 5
    /\ SubSeq(reqs[r].history, 1, 3) = docs[reqs[r].user].history
    /\ SubSeq(reqs[r].history, 4, 5) = Turn(reqs[r])

\* C17: history persistence of one user is last-write-wins and not serialized with the
\* usage counter: a save replaces the stored history by the saver's list whatever was
\* stored and leaves token_usage alone, and a usage commit leaves the history alone; so
\* of two racing turns the later save drops the earlier turn while both deltas count.
C17_LastWriteWins ==
  /\ [][\A r \in Reqs :
          (reqs[r].pc = "save" /\ reqs'[r].saved)
            => /\ docs'[reqs[r].user].history = reqs[r].history
               /\ UsageOf(reqs[r].user)' = UsageOf(reqs[r].user)]_vars
  /\ [][\A r \in Reqs :
          (reqs[r].pc = "tx_commit" /\ reqs'[r].usageAdded)
            => DurableHistory(reqs[r].user)' = DurableHistory(reqs[r].user)]_vars

\* C17 witness: two successful turns of one user were built on the same prior history,
\* each saved that history plus its own turn, the stored history is the second one's
\* list without the first one's turn, and the usage counter holds both deltas
C17_Witness ==
  \E r1 \in Reqs, r2 \in Reqs :
    LET q1 == reqs[r1]
        q2 == reqs[r2]
        H == SubSeq(q1.messages, 1, Len(q1.messages) - 1)
    IN /\ r1 # r2 /\ q1.user \in Uids /\ q2.user = q1.user
       /\ q1.pc = "respond" /\ q1.kind = "chat" /\ q1.status = 200 /\ q1.usageAdded
       /\ q2.pc = "respond" /\ q2.kind = "chat" /\ q2.status = 200 /\ q2.usageAdded
       /\ H = SubSeq(q2.messages, 1, Len(q2.messages) - 1)
       /\ q1.history = H \o Turn(q1) /\ q2.history = H \o Turn(q2)
       /\ Turn(q1) # Turn(q2)
       /\ docs[q1.user].history = q2.history
       /\ UsageOf(q1.user) = usage0[q1.user] + q1.totalRequestTokens + q2.totalRequestTokens

\* the turn of request q has been persisted where its identity's history lives
Persisted(q) ==
  IF q.persistsTo = "firestore" THEN q.saved /\ q.usageAdded ELSE q.dirty

\* C14: a chat request with a non-empty message ends either Responded (200) after
\* CompletionSucceeded and Persisted, or ErrorResponded (500) after CompletionFailed;
\* the completion service is requested only after the history was loaded and at most
\* once per request.
C14_RequestOrder ==
  /\ [](\A r \in Reqs :
          (reqs[r].pc = "respond" /\ reqs[r].kind = "chat" /\ reqs[r].status # 400)
            => \/ (reqs[r].status = 200 /\ reqs[r].completion = "ok" /\ Persisted(reqs[r]))
               \/ (reqs[r].status = 500 /\ reqs[r].completion = "failed"))
  /\ [][\A r \in Reqs :
          (reqs'[r].pc = "completion" /\ reqs[r].pc # "completion")
            => /\ reqs[r].pc \in {"route", "build_get", "build_set"}
               /\ reqs[r].completion = "none"
               /\ Len(reqs'[r].messages) >= 2]_vars

\* C12: once POST /api/reset has completed for an identity and the identity has sent
\* no chat message since, GET /api/history for that identity returns exactly the single
\* system message; the reset of an authenticated identity leaves its usage counter as
\* it was.
C12_ResetThenHistory ==
  /\ [](\A r \in Reqs :
          (/\ reqs[r].pc = "respond" /\ reqs[r].kind = "history" /\ reqs[r].status = 200
           /\ resetDone[Identity(reqs[r])])
            => reqs[r].body = Seed)
  /\ [][\A r \in Reqs :
          (reqs[r].pc = "reset_save" /\ reqs'[r].saved)
            => UsageOf(reqs[r].user)' = UsageOf(reqs[r].user)]_vars

\* the history stored for the identity of request q (the seed when none exists)
StoredHistory(q) ==
  IF UsesFirestore(q) THEN DurableHistory(q.user)
  ELSE IF sessionStore[q.sid].has THEN sessionStore[q.sid].history ELSE Seed

\* the history request q has persisted, or will with the end of its response
PersistedHistory(q) ==
  IF q.persistsTo = "firestore" THEN DurableHistory(q.user) ELSE q.session.history

\* with requests sent one at a time and nothing evicted: the list sent to the completion
\* service is the stored history plus the user message, and the persisted history is
\* that history plus the user message, once, and the assistant message
TurnAppended ==
  /\ [](\A r \in Reqs :
          LET q == reqs[r]
              sent == Append(StoredHistory(q), Msg("user", q.userMessage, Identity(q)))
          IN (/\ q.pc = "completion"
              /\ countTokensForMessagesArray(sent) <= HISTORY_MAX_TOKENS)
               => q.messages = sent)
  /\ [](\A r \in Reqs :
          LET q == reqs[r]
              H == SubSeq(q.messages, 1, Len(q.messages) - 1)
          IN (/\ q.pc = "respond" /\ q.kind = "chat" /\ q.status = 200
              /\ countTokensForMessagesArray(H \o Turn(q)) <= HISTORY_MAX_TOKENS)
               => /\ q.messages = Append(H, Msg("user", q.userMessage, Identity(q)))
                  /\ PersistedHistory(q) = H \o Turn(q)
                  /\ Persisted(q))
  /\ [][\A r \in Reqs :
          (/\ reqs[r].pc = "respond" /\ reqs[r].kind = "chat" /\ reqs[r].status = 200
           /\ reqs[r].persistsTo = "session" /\ reqs'[r].pc = "idle")
            => sessionStore'[reqs[r].sid].history = reqs[r].session.history]_vars

\* C11 as stated: ... and the reply in the response body (and in the persisted assistant
\* message) is the content r the completion service returned, whatever r is.
C11_Original ==
  /\ TurnAppended
  /\ [](\A r \in Reqs :
          (reqs[r].pc = "respond" /\ reqs[r].kind = "chat" /\ reqs[r].status = 200)
            => reqs[r].assistantText = reqs[r].content)

\* C11 (amended): for a chat request with message m of an identity whose stored history
\* is H, no other request in flight and nothing evicted, the list sent to the completion
\* service is H ++ [user:m], the persisted history is H ++ [user:m, assistant:reply]
\* with the user message once, and reply == r whenever the service returned a non-empty
\* content r; for an empty content the reply is the fixed fallback text.
C11_TurnPersistedAndReturned ==
  /\ TurnAppended
  /\ [](\A r \in Reqs :
          (reqs[r].pc = "respond" /\ reqs[r].kind = "chat" /\ reqs[r].status = 200)
            => reqs[r].assistantText =
                 IF reqs[r].content # "" THEN reqs[r].content ELSE FallbackReply)

\* C11 witness: an authenticated turn on a stored history of one earlier turn got the
\* non-empty content r and persisted that history plus [user:m, assistant:r]
C11_Witness ==
  \E r \in Reqs :
    /\ reqs[r].pc = "respond" /\ reqs[r].kind = "chat" /\ reqs[r].status = 200
    /\ reqs[r].persistsTo = "firestore" /\ reqs[r].content = "r"
    /\ reqs[r].assistantText = "r"
    /\ reqs[r].messages = Append(PriorTurn("u1"), Msg("user", "a", "u1"))
    /\ docs["u1"].history = PriorTurn("u1") \o Turn(reqs[r])

\* C21: the totalTokens reported by trimMessagesByTokenBudget equals estimateMessages
\* of the messages it returns, for every input, the empty list included; and the token
\* count a successful chat turn or reset stores with a history (total_tokens of the
\* document, history_total_tokens of the session) equals estimateMessages of that
\* history.
C21_ReportedTotalIsEstimate ==
  /\ tDone => tResult.totalTokens = countTokensForMessagesArray(tResult.messages)
  /\ \A r \in Reqs :
       LET q == reqs[r]
       IN (q.pc = "respond" /\ q.status = 200 /\ q.kind \in {"chat", "reset"})
            => IF q.saved
               THEN q.newTotal = countTokensForMessagesArray(q.history)
               ELSE q.session.history_total_tokens
                      = countTokensForMessagesArray(q.session.history)

\* the observable part of a history: its (role, content) pairs
RoleContent(h) == [i \in 1..Len(h) |-> [role |-> h[i].role, content |-> h[i].content]]

\* C22: from equal histories and under the same sequence of chat messages, completion
\* replies and resets, with no concurrent request, the session variant and the durable
\* variant send the same message list to the completion service and end each turn with
\* the same stored sequence of (role, content) pairs, for every budget.
C22_VariantsEquivalent ==
  /\ RoleContent(eSent.session) = RoleContent(eSent.durable)
  /\ RoleContent(eSession) = RoleContent(eDurable)

\* C22 witness: in a second or later turn the session variant had to evict again in its
\* second trim (what it stored is no longer than what it sent), and both variants hold
\* the same history
C22_Witness ==
  /\ eTurns >= 2 /\ Len(eSent.session) >= 2
  /\ eSent.session[Len(eSent.session)].role = "user"
  /\ Len(eSession) >= 2 /\ Len(eSession) <= Len(eSent.session)
  /\ eSession[Len(eSession)].role = "assistant"
  /\ RoleContent(eSession) = RoleContent(eDurable)

====
